---- MODULE Spec2Model ----
(***************************************************************************)
(* Model of dash-proxy (src/dashproxy.py): one DashProxy session that      *)
(* fetches an MPEG-DASH manifest, drives one DashDownloader per            *)
(* representation and re-fetches the manifest while it is live.            *)
(*                                                                         *)
(* Strings are sequences of chunks (TLA+ strings); "/" and "?" are chunks  *)
(* of their own, so that rfind("/") and split("?") can be computed.  An    *)
(* optional XML child (find() returning None) is a sequence of length 0    *)
(* or 1.  An attribute dictionary is a function whose domain is the set of *)
(* attribute names that are present.  requests.get is the black-box fetch  *)
(* collaborator: it returns a status code and a body chosen by the         *)
(* environment.                                                            *)
(***************************************************************************)
EXTENDS Integers, Sequences, FiniteSets, TLC

VARIABLES
    pc,              \* position of the running frame
    stack,           \* suspended callers that still act after the callee returns
    after,           \* argument of the pending refresh_mpd call
    slept,           \* duration of the last time.sleep (0: none)
    r,               \* refresh_mpd: the response held by the running frame
    i_refresh,       \* DashProxy.i_refresh
    save_mpds,       \* DashProxy.save_mpds
    render_in,       \* arguments of a render_template call
    render_out,      \* its result
    downloaders,     \* DashProxy.downloaders: set of (key object, DashDownloader)
    next_oid,        \* identity of the next object created
    mpd,             \* DashProxy.handle_mpd: the working tree
    original_mpd,    \* DashProxy.handle_mpd: the deep copy
    todo,            \* DashProxy.handle_mpd: (as_idx, rep_idx) pairs left to enumerate
    cur,             \* the DashDownloader being driven
    seg_pos,         \* DashDownloader.handle_mpd: position of the second loop
    next_time,       \* DashDownloader.handle_mpd: next_time
    files,           \* output directory: paths written by DashDownloader.write
    out_mpd,         \* output directory: content of manifest.mpd
    snapshots,       \* output directory: numbered snapshots, in order of writing
    crash,           \* the uncaught exception that ended the session ("" if none)
    compact,         \* history: timeline of the driven representation before expansion
    drive_log,       \* history: download requests of the current drive
    last_fetch,      \* history: the last download request and its status
    handled,         \* history: responses given to DashProxy.handle_mpd
    status_log,      \* history: status codes of the manifest fetches
    init_fetches,    \* history: bag of addresses whose initialization was requested
    driven,          \* history: addresses driven in the current cycle
    seen,            \* history: addresses given to ensure_downloader
    vod_returned     \* history: a handling of a manifest without minimumUpdatePeriod returned

vars == << render_in, render_out, pc, stack, after, slept, r, i_refresh, save_mpds, downloaders,
           next_oid, mpd, original_mpd, todo, cur, seg_pos, next_time, files,
           out_mpd, snapshots, crash, compact, drive_log, last_fetch, handled,
           status_log, init_fetches, driven, seen, vod_returned >>

\* ---------------------------------------------------------------- bounds
MaxRefresh == 2          \* refresh_mpd calls explored in one session
MaxEntries == 2          \* S entries of a drawn compact timeline
MaxNumber == 12          \* sequence numbers of a rendered descriptor

\* ------------------------------------------------------------- constants
retry_interval == 10
live_refresh_delay == 10

\* -------------------------------------------------------------- helpers
Digit == << "0", "1", "2", "3", "4", "5", "6", "7", "8", "9" >>

RECURSIVE str_int(_)
\* str(n) of a non-negative int, as str.format renders it
str_int(n) == IF n < 10 THEN << Digit[n + 1] >>
              ELSE str_int(n \div 10) \o << Digit[(n % 10) + 1] >>

\* dict.get(key, default)
attrib_get(attrib, key, default) ==
    IF key \in DOMAIN attrib THEN attrib[key] ELSE default

\* dict with attrib[key] = value
attrib_set(attrib, key, value) ==
    [k \in (DOMAIN attrib) \cup {key} |-> IF k = key THEN value ELSE attrib[k]]

Range(f) == {f[x] : x \in DOMAIN f}

\* str.rfind("/"): 1-based position of the last "/", 0 when there is none
rfind_slash(url) ==
    LET S == {i \in 1..Len(url) : url[i] = "/"}
    IN  IF S = {} THEN 0 ELSE CHOOSE i \in S : \A j \in S : j <= i

baseUrl(url) ==
    LET idx == rfind_slash(url)
    IN  IF idx >= 1 THEN SubSeq(url, 1, idx) ELSE url

\* variant: the upper limit of the status test dropped
status_ok_no_upper(s) == s >= 200

\* download status test of download_template / download_single
status_ok(s) == s >= 200 /\ s < 300

\* variant: status 300 not taken as a failure
mpd_get_failed_off_by_one(s) == s < 200 \/ s > 300

\* manifest status test of refresh_mpd
mpd_get_failed(s) == s < 200 \/ s >= 300

\* ------------------------------------------------------ manifest documents
\* SegmentTimeline with the given S attribute dictionaries
Timeline(ss) == [S |-> ss]

\* SegmentTemplate; timeline is a sequence of length 0 (no SegmentTimeline) or 1
Template(init, media, timeline) ==
    [initialization |-> init, media |-> media, SegmentTimeline |-> timeline]

\* Representation; st and base are sequences of length 0 or 1
Rep(id, st, base) == [id |-> id, SegmentTemplate |-> st, BaseURL |-> base]

AdaptationSet(st, reps) == [SegmentTemplate |-> st, Representation |-> reps]

Mpd(mup, location, baseurl, periods) ==
    [minimumUpdatePeriod |-> mup, Location |-> location, BaseUrl |-> baseurl,
     BaseURL |-> << >>, Period |-> periods]

\* a childless top-level <BaseURL> element holding text
BaseURLNode(text) == [text |-> text, children |-> 0]

\* the document m with a top-level <BaseURL> element
with_BaseURL(m, text) == [m EXCEPT !.BaseURL = << BaseURLNode(text) >>]

InitTpl == << "init-", "$RepresentationID$", ".mp4" >>
PlainMedia == << "seg.m4s", "?", "tok" >>
MarkedMedia == << "$RepresentationID$", "/", "$Time$", "-", "$Number%05d$", ".m4s" >>

\* the timeline [{d:4,r:2},{d:5,t:20}]
ExampleS == << [d |-> 4, r |-> 2], [d |-> 5, t |-> 20] >>

\* VOD, one representation with its own template and the example timeline
AbsoluteBase == << "http:", "/", "/", "cdn", "/", "v", "/", "x" >>
RelativeBase == << "media", "/" >>

MpdExample ==
    with_BaseURL(
      Mpd("", << >>, << >>,
        << << AdaptationSet(<< >>,
              << Rep("v1", << Template(InitTpl, PlainMedia,
                                       << Timeline(ExampleS) >>) >>, << >>) >>) >> >>),
      AbsoluteBase)

\* live, two representations sharing the adaptation set's template
MpdLive ==
    Mpd("PT2S", << << "http:", "/", "/", "h", "/", "x", "/", "alt.mpd" >> >>, << >>,
        << << AdaptationSet(<< Template(InitTpl, PlainMedia,
                                        << Timeline(<< [d |-> 2, r |-> 1] >>) >>) >>,
              << Rep("a1", << >>, << >>), Rep("a2", << >>, << >>) >>) >> >>)

\* live, one static file and one templated representation in two adaptation sets
MpdLiveSingle ==
    with_BaseURL(
      Mpd("PT2S", << >>, << >>,
        << << AdaptationSet(<< >>, << Rep("s1", << >>, << << "sub.vtt" >> >>) >>),
              AdaptationSet(<< >>,
              << Rep("v2", << Template(<< >>, PlainMedia,
                                       << Timeline(<< [d |-> 3, t |-> 7] >>) >>) >>,
                     << >>) >>) >> >>),
      RelativeBase)

\* VOD, media template with markers, followed by a second representation
MpdMarked ==
    Mpd("", << >>, << >>,
        << << AdaptationSet(<< >>,
              << Rep("m1", << Template(InitTpl, MarkedMedia,
                                       << Timeline(<< [d |-> 3, t |-> 7] >>) >>) >>, << >>),
                 Rep("m2", << Template(<< >>, PlainMedia,
                                       << Timeline(<< [d |-> 1] >>) >>) >>, << >>) >>) >> >>)

\* VOD, a template without SegmentTimeline and a static file without BaseURL
MpdShapes ==
    Mpd("", << >>, << >>,
        << << AdaptationSet(<< >>,
              << Rep("n1", << Template(<< >>, PlainMedia, << >>) >>, << >>) >>) >> >>)

\* a well-formed document without any Period (e.g. an XHTML error page)
MpdNoPeriod == Mpd("", << >>, << >>, << >>)

Manifests == {MpdExample, MpdLive, MpdLiveSingle, MpdMarked, MpdShapes, MpdNoPeriod}

\* response bodies: << >> is text that is not well-formed XML
Texts == {<< >>} \cup {<< m >> : m \in Manifests}

Statuses == {199, 200, 300}

\* xml.etree.ElementTree.fromstring: the parsed tree, << >> for ParseError
fromstring(text) == text

\* ------------------------------------------------------------ MpdLocator
RepAddr(oid, period_idx, adaptation_set_idx, representation_idx) ==
    [oid |-> oid, period_idx |-> period_idx,
     adaptation_set_idx |-> adaptation_set_idx,
     representation_idx |-> representation_idx]

\* the address by value
Triple(a) == << a.period_idx, a.adaptation_set_idx, a.representation_idx >>

adaptation_set(m, rep_addr) ==
    m.Period[rep_addr.period_idx + 1][rep_addr.adaptation_set_idx + 1]

representation(m, rep_addr) ==
    adaptation_set(m, rep_addr).Representation[rep_addr.representation_idx + 1]

\* where segment_template finds the template: "rep", "as" or "none"
segment_template_owner(m, rep_addr) ==
    IF representation(m, rep_addr).SegmentTemplate # << >> THEN "rep"
    ELSE IF adaptation_set(m, rep_addr).SegmentTemplate # << >> THEN "as"
    ELSE "none"

segment_template(m, rep_addr) ==
    LET rep_st == representation(m, rep_addr).SegmentTemplate
    IN  IF rep_st # << >> THEN rep_st
        ELSE adaptation_set(m, rep_addr).SegmentTemplate

\* only called when segment_template is not None
segment_timeline(m, rep_addr) ==
    segment_template(m, rep_addr)[1].SegmentTimeline

base_url(m, rep_addr) == representation(m, rep_addr).BaseURL

\* the tree with the S children of the resolved SegmentTimeline replaced
\* (Element.remove / Element.insert act on the tree the caller handed in)
with_S(m, rep_addr, ss) ==
    LET p == rep_addr.period_idx + 1
        a == rep_addr.adaptation_set_idx + 1
        q == rep_addr.representation_idx + 1
    IN  IF segment_template_owner(m, rep_addr) = "rep"
        THEN [m EXCEPT !.Period[p][a].Representation[q].SegmentTemplate[1]
                                     .SegmentTimeline[1].S = ss]
        ELSE [m EXCEPT !.Period[p][a].SegmentTemplate[1].SegmentTimeline[1].S = ss]

\* ------------------------------------------------------- DashDownloader
\* variant: the removal loop left out
remove_S_skipped(children) == children

\* lines 281-282: the S children left after every one was removed
remove_S(children) == << >>

\* variant: every element inserted at the front
list_insert_front(list, idx, elem) == << elem >> \o list

\* list.insert(idx, elem)
list_insert(list, idx, elem) ==
    IF idx >= Len(list) THEN Append(list, elem)
    ELSE SubSeq(list, 1, idx) \o << elem >> \o SubSeq(list, idx + 1, Len(list))

\* variant: sequence numbers counted from 0
new_S_zero_based(duration, idx) == [d |-> duration, i |-> idx]

\* the element created for one instance of a compact entry
new_S(duration, idx) == [d |-> duration, i |-> idx + 1]

RECURSIVE repeat_S(_, _, _, _)
\* inner loop: for _ in range(0, repeat + 1)
repeat_S(timeline, duration, count, idx) ==
    IF count <= 0 THEN timeline
    ELSE repeat_S(list_insert(timeline, idx, new_S(duration, idx)),
                  duration, count - 1, idx + 1)

RECURSIVE expand_S(_, _, _)
\* outer loop over the copied compact entries; timeline starts empty
expand_S(segments, timeline, idx) ==
    IF segments = << >> THEN timeline
    ELSE LET segment == Head(segments)
             duration == attrib_get(segment, "d", 0)
             repeat == attrib_get(segment, "r", 0)
         IN  expand_S(Tail(segments),
                      repeat_S(timeline, duration, repeat + 1, idx),
                      idx + repeat + 1)

\* str.replace of the three recognised markers
replace_markers(template) ==
    [k \in 1..Len(template) |->
        IF template[k] = "$RepresentationID$" THEN "{representation_id}"
        ELSE IF template[k] = "$Time$" THEN "{time}"
        ELSE IF template[k] = "$Number%05d$" THEN "{number}"
        ELSE template[k]]

Fields == {"{representation_id}", "{time}", "{number}"}

\* the args dictionary: field -> rendered value
format_args(rep, segment) ==
    LET a1 == IF rep # << >>
              THEN [f \in {"{representation_id}"} |-> << rep[1].id >>]
              ELSE << >>
        tv == IF segment # << >> /\ "t" \in DOMAIN segment[1]
              THEN str_int(segment[1]["t"]) ELSE << >>
        nv == IF segment # << >> /\ "i" \in DOMAIN segment[1]
              THEN str_int(segment[1]["i"]) ELSE << >>
    IN  [f \in (DOMAIN a1) \cup (IF segment # << >> THEN {"{time}", "{number}"} ELSE {}) |->
            IF f = "{representation_id}" THEN a1[f]
            ELSE IF f = "{time}" THEN tv ELSE nv]

RECURSIVE format(_, _)
\* str.format(**args) on already-checked fields
format(template, args) ==
    IF template = << >> THEN << >>
    ELSE (IF Head(template) \in Fields THEN args[Head(template)]
          ELSE << Head(template) >>) \o format(Tail(template), args)

\* render_template: [err |-> TRUE] stands for the KeyError of str.format
render_template(template, rep, segment) ==
    LET t == replace_markers(template)
        args == format_args(rep, segment)
    IN  IF \E k \in 1..Len(t) : t[k] \in Fields /\ t[k] \notin DOMAIN args
        THEN [err |-> TRUE, val |-> << >>]
        ELSE [err |-> FALSE, val |-> format(t, args)]

full_url(mpd_base_url, dest) == mpd_base_url \o dest

output_dir == "out"

\* dest.split("?")[0]
before_query(dest) ==
    LET Q == {i \in 1..Len(dest) : dest[i] = "?"}
    IN  IF Q = {} THEN dest
        ELSE SubSeq(dest, 1, (CHOOSE i \in Q : \A j \in Q : i <= j) - 1)

\* the path DashDownloader.write opens
write_path(dest) ==
    LET d == before_query(dest)
    IN  IF d # << >> /\ d[1] = "/" THEN d ELSE << output_dir, "/" >> \o d

\* ------------------------------------------------------------ DashProxy
mpd_url == << "http:", "/", "/", "h", "/", "a", "/", "b", "/", "manifest.mpd" >>

\* mpd.find("mpd:BaseUrl") matches elements named BaseUrl, never the
\* <BaseURL> elements of a manifest; an Element without children is falsy
get_base_url(m) ==
    LET b0 == baseUrl(mpd_url)
        b1 == IF m.Location # << >> THEN baseUrl(m.Location[1]) ELSE b0
    IN  IF m.BaseUrl # << >> /\ m.BaseUrl[1].children > 0
        THEN (IF Len(m.BaseUrl[1].text) >= 3
                 /\ SubSeq(m.BaseUrl[1].text, 1, 3) \in
                      {<< "http:", "/", "/" >>, << "https:", "/", "/" >>}
              THEN baseUrl(m.BaseUrl[1].text)
              ELSE b1 \o m.BaseUrl[1].text)
        ELSE b1

\* variant: addresses compared by their three indices
RepAddr_eq_by_value(a, b) == Triple(a) = Triple(b)

\* default object equality and hash: identity
RepAddr_eq(a, b) == a.oid = b.oid

\* rep_addr in self.downloaders
in_downloaders(rep_addr, ds) == \E e \in ds : RepAddr_eq(e.key, rep_addr)

\* (as_idx, rep_idx) of the first Period in document order
RECURSIVE pairs_from(_, _, _)
pairs_from(sets, a, q) ==
    IF a > Len(sets) THEN << >>
    ELSE IF q > Len(sets[a].Representation) THEN pairs_from(sets, a + 1, 1)
    ELSE << << a - 1, q - 1 >> >> \o pairs_from(sets, a, q + 1)

\* -------------------------------------------------------------- session
NoResponse == [status_code |-> 0, text |-> << >>]
NoFetch == [kind |-> "", i |-> 0, url |-> << >>, dest |-> << >>, status |-> 0]

\* state after DashProxy.__init__, at the call of refresh_mpd() in run()
Init ==
    /\ pc = "refresh" /\ stack = << >> /\ after = 0 /\ slept = 0
    /\ r = NoResponse /\ i_refresh = 0 /\ save_mpds \in BOOLEAN
    /\ downloaders = << >> /\ next_oid = 1
    /\ mpd = MpdNoPeriod /\ original_mpd = MpdNoPeriod /\ todo = << >>
    /\ cur = 0 /\ seg_pos = 0 /\ next_time = 0
    /\ files = {} /\ out_mpd = << >> /\ snapshots = << >> /\ crash = ""
    /\ compact = << >> /\ drive_log = << >> /\ last_fetch = NoFetch
    /\ handled = << >> /\ status_log = << >> /\ init_fetches = << >>
    /\ driven = {} /\ seen = {} /\ vod_returned = FALSE
    /\ render_in = << >> /\ render_out = << >>

proxy_vars == << i_refresh, save_mpds, slept, after, r, stack >>
tree_vars == << mpd, original_mpd >>
drive_vars == << cur, seg_pos, next_time, compact, drive_log >>
disk_vars == << files, out_mpd, snapshots >>
hist_vars == << handled, status_log, init_fetches, driven, seen, vod_returned >>
pure_vars == << render_in, render_out >>

\* an uncaught exception unwinds every frame: the process ends
raise(exc) == pc' = "crashed" /\ crash' = exc

\* DashDownloader.handle_mpd returns to the representation loop
drive_returns ==
    /\ todo' = Tail(todo)
    /\ pc' = IF todo' = << >> THEN "write" ELSE "ensure"
    /\ driven' = driven \cup {Triple(downloaders[cur].key)}

\* position after the body of the representation loop: next pair or line 203
after_pair(rest) == IF rest = << >> THEN "write" ELSE "ensure"

\* refresh_mpd, lines 148-160: count, sleep, GET, and on a failure status
\* the recursive call, which suspends this activation at line 160
refresh_mpd ==
    /\ pc = "refresh"
    /\ UNCHANGED pure_vars
    /\ i_refresh < MaxRefresh
    /\ i_refresh' = i_refresh + 1
    /\ slept' = IF after > 0 THEN after ELSE 0
    /\ \E status \in Statuses, text \in Texts :
          /\ r' = [status_code |-> status, text |-> text]
          /\ status_log' = Append(status_log, status)
          /\ IF mpd_get_failed(status)
             THEN /\ stack' = Append(stack, [line |-> 160, r |-> r'])
                  /\ after' = retry_interval
                  /\ pc' = "refresh"
             ELSE /\ pc' = "parse"
                  /\ UNCHANGED << stack, after >>
    /\ UNCHANGED << save_mpds, downloaders, next_oid, tree_vars, todo,
                    drive_vars, disk_vars, crash, last_fetch, handled,
                    init_fetches, driven, seen, vod_returned >>

\* refresh_mpd, lines 162-164: parse the response this activation holds
\* and call handle_mpd
parse_mpd ==
    /\ pc = "parse"
    /\ UNCHANGED pure_vars
    /\ IF fromstring(r.text) = << >>
       THEN /\ raise("ParseError")
            /\ UNCHANGED << tree_vars, handled, driven >>
       ELSE /\ mpd' = fromstring(r.text)[1]
            /\ original_mpd' = original_mpd
            /\ handled' = Append(handled,
                   [status_code |-> r.status_code,
                    live |-> fromstring(r.text)[1].minimumUpdatePeriod # ""])
            /\ driven' = {}
            /\ pc' = "handle"
            /\ UNCHANGED crash
    /\ UNCHANGED << proxy_vars, downloaders, next_oid, todo, drive_vars,
                    disk_vars, last_fetch, status_log, init_fetches,
                    seen, vod_returned >>

\* DashProxy.handle_mpd, lines 181-189: deep copy, first Period
handle_mpd ==
    /\ pc = "handle"
    /\ UNCHANGED pure_vars
    /\ original_mpd' = mpd
    /\ IF mpd.Period = << >>
       THEN raise("IndexError") /\ UNCHANGED todo
       ELSE /\ todo' = pairs_from(mpd.Period[1], 1, 1)
            /\ pc' = after_pair(todo')
            /\ UNCHANGED crash
    /\ UNCHANGED << proxy_vars, downloaders, next_oid, mpd, drive_vars,
                    disk_vars, last_fetch, hist_vars >>

\* the DashDownloader being driven and what it resolves in the working tree
cur_addr == downloaders[cur].key
cur_rep == representation(mpd, cur_addr)
cur_template == segment_template(mpd, cur_addr)[1]
cur_S == segment_timeline(mpd, cur_addr)[1].S

\* one GET of a download with its outcome: the request is logged, and the
\* body is written when the status passes the test of lines 253 / 313
fetch(kind, i, dest, status) ==
    LET req == [kind |-> kind, i |-> i,
                url |-> full_url(downloaders[cur].mpd_base_url, dest)]
    IN  /\ drive_log' = Append(drive_log, req)
        /\ last_fetch' = [kind |-> kind, i |-> i, url |-> req.url,
                          dest |-> dest, status |-> status]
        /\ files' = IF status_ok(status) THEN files \cup {write_path(dest)}
                    ELSE files

\* download_template, lines 307-309: the path requested for a template
download_dest(template, headers, cookies, rep, segment) ==
    render_template(template, rep, segment)

\* ensure_downloader, lines 200-201 and 212-220, with the entry of
\* DashDownloader.handle_mpd, lines 262-271
ensure_downloader ==
    /\ pc = "ensure"
    /\ UNCHANGED pure_vars
    /\ LET rep_addr == RepAddr(next_oid, 0, todo[1][1], todo[1][2])
       IN  /\ next_oid' = next_oid + 1
           /\ seen' = seen \cup {Triple(rep_addr)}
           /\ IF in_downloaders(rep_addr, Range(downloaders))
              THEN /\ todo' = Tail(todo)
                   /\ pc' = after_pair(todo')
                   /\ UNCHANGED << downloaders, cur, compact, drive_log >>
              ELSE /\ downloaders' = Append(downloaders,
                          [key |-> rep_addr, initialization_downloaded |-> FALSE,
                           mpd_base_url |-> get_base_url(mpd)])
                   /\ cur' = Len(downloaders')
                   /\ drive_log' = << >>
                   /\ IF segment_template(mpd, rep_addr) = << >>
                      THEN pc' = "single" /\ compact' = << >>
                      ELSE /\ pc' = "init"
                           /\ compact' = IF segment_timeline(mpd, rep_addr) = << >>
                                         THEN << >>
                                         ELSE segment_timeline(mpd, rep_addr)[1].S
                   /\ UNCHANGED todo
    /\ UNCHANGED << proxy_vars, tree_vars, seg_pos, next_time, disk_vars,
                    crash, last_fetch, handled, status_log, init_fetches,
                    driven, vod_returned >>

\* download_single, lines 248-259, and the return to the representation loop
download_single ==
    /\ pc = "single"
    /\ UNCHANGED pure_vars
    /\ IF base_url(mpd, cur_addr) = << >>
       THEN /\ raise("AttributeError")
            /\ UNCHANGED << todo, drive_log, last_fetch, files, driven >>
       ELSE /\ \E status \in Statuses :
                 fetch("single", 0, base_url(mpd, cur_addr)[1], status)
            /\ drive_returns
            /\ UNCHANGED crash
    /\ UNCHANGED << proxy_vars, downloaders, next_oid, tree_vars, cur, seg_pos,
                    next_time, compact, out_mpd, snapshots, handled,
                    status_log, init_fetches, seen, vod_returned >>

\* DashDownloader.handle_mpd, lines 273-278: the initialization segment
download_init ==
    /\ pc = "init"
    /\ UNCHANGED pure_vars
    /\ LET tpl == cur_template.initialization
           dest == download_dest(tpl, "headers", "cookies", << cur_rep >>, << >>)
       IN  IF tpl # << >> /\ ~downloaders[cur].initialization_downloaded
           THEN /\ downloaders' =
                      [downloaders EXCEPT ![cur].initialization_downloaded = TRUE]
                /\ IF dest.err
                   THEN /\ raise("KeyError")
                        /\ UNCHANGED << drive_log, last_fetch, files, init_fetches >>
                   ELSE /\ \E status \in Statuses : fetch("init", 0, dest.val, status)
                        /\ init_fetches' = Append(init_fetches, Triple(cur_addr))
                        /\ pc' = "expand"
                        /\ UNCHANGED crash
           ELSE /\ pc' = "expand"
                /\ UNCHANGED << downloaders, drive_log, last_fetch, files,
                                init_fetches, crash >>
    /\ UNCHANGED << proxy_vars, next_oid, tree_vars, todo, cur, seg_pos,
                    next_time, compact, out_mpd, snapshots, handled,
                    status_log, driven, seen, vod_returned >>

\* DashDownloader.handle_mpd, lines 280-297: the S children of the timeline
\* are removed from the working tree and rewritten, one element per instance
expand_timeline ==
    /\ pc = "expand"
    /\ UNCHANGED pure_vars
    /\ IF segment_timeline(mpd, cur_addr) = << >>
       THEN /\ raise("AttributeError")
            /\ UNCHANGED << mpd, todo, seg_pos, next_time, driven >>
       ELSE LET ss == expand_S(cur_S, remove_S(cur_S), 0)
            IN  /\ mpd' = with_S(mpd, cur_addr, ss)
                /\ next_time' = 0
                /\ seg_pos' = 1
                /\ IF ss = << >>
                   THEN drive_returns
                   ELSE pc' = "segment" /\ UNCHANGED << todo, driven >>
                /\ UNCHANGED crash
    /\ UNCHANGED << proxy_vars, downloaders, next_oid, original_mpd, cur,
                    compact, drive_log, disk_vars, last_fetch, handled,
                    status_log, init_fetches, seen, vod_returned >>

\* DashDownloader.handle_mpd, lines 298-305: one iteration of the second
\* loop; after the last one the drive returns to the representation loop.
\* Line 305 passes rep and segment in the positions of headers and cookies.
download_segment ==
    /\ pc = "segment"
    /\ UNCHANGED pure_vars
    /\ LET segment == cur_S[seg_pos]
           current_time == attrib_get(segment, "t", -1)
           seg1 == IF current_time = -1 THEN attrib_set(segment, "t", next_time)
                   ELSE segment
           nt == IF current_time = -1 THEN next_time ELSE current_time
           dest == download_dest(cur_template.media, << cur_rep >>, << seg1 >>,
                                 << >>, << >>)
       IN  /\ mpd' = with_S(mpd, cur_addr, [cur_S EXCEPT ![seg_pos] = seg1])
           /\ next_time' = nt + attrib_get(segment, "d", 0)
           /\ IF dest.err
              THEN /\ raise("KeyError")
                   /\ UNCHANGED << todo, seg_pos, drive_log, last_fetch, files,
                                   driven >>
              ELSE /\ \E status \in Statuses :
                        fetch("media", attrib_get(seg1, "i", 0), dest.val, status)
                   /\ seg_pos' = seg_pos + 1
                   /\ IF seg_pos = Len(cur_S)
                      THEN drive_returns
                      ELSE pc' = "segment" /\ UNCHANGED << todo, driven >>
                   /\ UNCHANGED crash
    /\ UNCHANGED << proxy_vars, downloaders, next_oid, original_mpd, cur,
                    compact, out_mpd, snapshots, handled, status_log,
                    init_fetches, seen, vod_returned >>

\* xml.etree.ElementTree.tostring of a tree
tostring(m) == << m >>

\* variant: the working tree handed to write_output_mpd
written_tree_working(working, original) == working

\* line 203: the tree handed to write_output_mpd
written_tree(working, original) == original

\* write_output_mpd, lines 203 and 222-236
write_output_mpd ==
    /\ pc = "write"
    /\ UNCHANGED pure_vars
    /\ out_mpd' = tostring(written_tree(mpd, original_mpd))
    /\ snapshots' = IF save_mpds
                    THEN Append(snapshots,
                                [n |-> i_refresh,
                                 content |-> tostring(written_tree(mpd, original_mpd))])
                    ELSE snapshots
    /\ pc' = "decide"
    /\ UNCHANGED << proxy_vars, downloaders, next_oid, tree_vars, todo,
                    drive_vars, files, crash, last_fetch, hist_vars >>

\* DashProxy.handle_mpd, lines 205-210: a live manifest calls refresh_mpd
\* again, which suspends this handling (and the refresh_mpd activation that
\* called it at line 164); otherwise handle_mpd returns
schedule_refresh ==
    /\ pc = "decide"
    /\ UNCHANGED pure_vars
    /\ IF mpd.minimumUpdatePeriod # ""
       THEN /\ stack' = Append(stack, [line |-> 164, r |-> r])
            /\ after' = live_refresh_delay
            /\ pc' = "refresh"
            /\ UNCHANGED vod_returned
       ELSE /\ pc' = "return"
            /\ vod_returned' = TRUE
            /\ UNCHANGED << stack, after >>
    /\ UNCHANGED << i_refresh, save_mpds, slept, r, downloaders, next_oid,
                    tree_vars, todo, drive_vars, disk_vars, crash, last_fetch,
                    handled, status_log, init_fetches, driven, seen >>

\* a refresh_mpd activation returns: to run() when no caller is suspended,
\* to line 162 of the activation suspended at line 160, or through the
\* handling suspended at line 208 to the end of its refresh_mpd activation
return_refresh ==
    /\ pc = "return"
    /\ UNCHANGED pure_vars
    /\ IF stack = << >>
       THEN pc' = "done" /\ UNCHANGED << stack, r >>
       ELSE LET top == stack[Len(stack)]
            IN  /\ stack' = SubSeq(stack, 1, Len(stack) - 1)
                /\ r' = top.r
                /\ pc' = IF top.line = 160 THEN "parse" ELSE "return"
    /\ UNCHANGED << i_refresh, save_mpds, slept, after, downloaders, next_oid,
                    tree_vars, todo, drive_vars, disk_vars, crash, last_fetch,
                    hist_vars >>

Next ==
    \/ refresh_mpd
    \/ parse_mpd
    \/ handle_mpd
    \/ ensure_downloader
    \/ download_single
    \/ download_init
    \/ expand_timeline
    \/ download_segment
    \/ write_output_mpd
    \/ schedule_refresh
    \/ return_refresh

Spec == Init /\ [][Next]_vars

\* ------------------------------------------- one handling, any timeline
\* compact S entries: d, optionally r, optionally t
Entries ==
    {[d |-> dv] : dv \in {4, 5}}
    \cup {[d |-> dv, r |-> 2] : dv \in {4, 5}}
    \cup {[d |-> dv, t |-> 20] : dv \in {4, 5}}
    \cup {[d |-> dv, r |-> 2, t |-> 20] : dv \in {4, 5}}

Timelines == UNION {[1..k -> Entries] : k \in 0..MaxEntries}

\* VOD, two representations sharing the adaptation set's template
MpdTimeline(tl) ==
    Mpd("", << >>, << >>,
        << << AdaptationSet(<< Template(InitTpl, PlainMedia, << Timeline(tl) >>) >>,
              << Rep("a1", << >>, << >>), Rep("a2", << >>, << >>) >>) >> >>)

\* state at line 164 of the first refresh_mpd, the GET having returned 200
\* with a manifest whose timeline is drawn from Timelines
InitTimeline ==
    /\ \E tl \in Timelines :
          /\ mpd = MpdTimeline(tl)
          /\ r = [status_code |-> 200, text |-> << MpdTimeline(tl) >>]
    /\ pc = "handle" /\ stack = << >> /\ after = 0 /\ slept = 0
    /\ i_refresh = 1 /\ save_mpds = FALSE
    /\ downloaders = << >> /\ next_oid = 1
    /\ original_mpd = MpdNoPeriod /\ todo = << >>
    /\ cur = 0 /\ seg_pos = 0 /\ next_time = 0
    /\ files = {} /\ out_mpd = << >> /\ snapshots = << >> /\ crash = ""
    /\ compact = << >> /\ drive_log = << >> /\ last_fetch = NoFetch
    /\ handled = << [status_code |-> 200, live |-> FALSE] >>
    /\ status_log = << 200 >> /\ init_fetches = << >>
    /\ driven = {} /\ seen = {} /\ vod_returned = FALSE
    /\ render_in = << >> /\ render_out = << >>

NextTimeline ==
    \/ handle_mpd
    \/ ensure_downloader
    \/ download_init
    \/ expand_timeline
    \/ download_segment
    \/ write_output_mpd
    \/ schedule_refresh
    \/ return_refresh

SpecTimeline == InitTimeline /\ [][NextTimeline]_vars

\* ------------------------------------------------ render_template alone
RenderTemplates ==
    {<< "$Number%05d$" >>,
     << "$RepresentationID$", "/", "$Number%05d$", ".m4s" >>,
     MarkedMedia,
     PlainMedia}

\* an expanded S element after line 301: d, i and t as set by the drive
RenderSegments ==
    {[d |-> 4, i |-> n, t |-> tv] : n \in 1..MaxNumber, tv \in {0, 7}}

\* a call render_template(template, representation, segment); << >> is None
InitRender ==
    /\ render_in \in
          [template : RenderTemplates,
           representation : {<< >>, << Rep("v1", << >>, << >>) >>},
           segment : {<< >>} \cup {<< e >> : e \in RenderSegments}]
    /\ render_out = << >>
    /\ pc = "render" /\ stack = << >> /\ after = 0 /\ slept = 0
    /\ r = NoResponse /\ i_refresh = 0 /\ save_mpds = FALSE
    /\ downloaders = << >> /\ next_oid = 1
    /\ mpd = MpdNoPeriod /\ original_mpd = MpdNoPeriod /\ todo = << >>
    /\ cur = 0 /\ seg_pos = 0 /\ next_time = 0
    /\ files = {} /\ out_mpd = << >> /\ snapshots = << >> /\ crash = ""
    /\ compact = << >> /\ drive_log = << >> /\ last_fetch = NoFetch
    /\ handled = << >> /\ status_log = << >> /\ init_fetches = << >>
    /\ driven = {} /\ seen = {} /\ vod_returned = FALSE

\* lines 321-337: the call returns, or raises KeyError
render ==
    /\ pc = "render"
    /\ render_out' = render_template(render_in.template,
                                     render_in.representation,
                                     render_in.segment)
    /\ IF render_out'.err THEN raise("KeyError")
       ELSE pc' = "rendered" /\ UNCHANGED crash
    /\ UNCHANGED << render_in, proxy_vars, downloaders, next_oid, tree_vars,
                    todo, drive_vars, disk_vars, last_fetch, hist_vars >>

NextRender == render

SpecRender == InitRender /\ [][NextRender]_vars

\* ============================================================ properties
\* a status the fetch collaborator reports as success
InRange(status) == status \in 200..299

\* the drive of downloader cur has returned in the current handling
DriveDone == cur > 0 /\ Triple(cur_addr) \in driven

\* ... and it took the templated branch
TemplatedDone == DriveDone /\ segment_template(mpd, cur_addr) # << >>

\* the (sequence_number, start_time) descriptors left by the drive
Descriptors == [k \in 1..Len(cur_S) |-> << cur_S[k]["i"], cur_S[k]["t"] >>]

\* the media requests of the current drive
MediaLog == SelectSeq(drive_log, LAMBDA e : e.kind = "media")

RECURSIVE FirstOf(_, _)
\* position of the first descriptor of compact entry j
FirstOf(c, j) ==
    IF j <= 1 THEN 1
    ELSE FirstOf(c, j - 1) + attrib_get(c[j - 1], "r", 0) + 1

\* C1: over any sequence of refresh cycles (every manifest fetch
\* succeeding) the initialization segment of a representation address is
\* requested at most once in the whole session.
C1_InitFetchedAtMostOnce ==
    (\A k \in 1..Len(status_log) : InRange(status_log[k]))
    => \A i, j \in 1..Len(init_fetches) :
          init_fetches[i] = init_fetches[j] => i = j

\* C2: every media request of a templated drive has the URL base +
\* media template rendered with the representation id and the descriptor,
\* every descriptor of a finished drive got exactly one request, and the
\* drive does not stop on rendering the media template.
C2_MediaUrlRendered ==
    /\ \A k \in 1..Len(MediaLog) :
          LET want == render_template(cur_template.media, << cur_rep >>,
                                      << cur_S[MediaLog[k].i] >>)
          IN  /\ ~want.err
              /\ MediaLog[k].url = full_url(downloaders[cur].mpd_base_url, want.val)
    /\ (pc = "crashed" /\ crash = "KeyError" /\ cur > 0
          /\ segment_template(mpd, cur_addr) # << >>
          /\ segment_timeline(mpd, cur_addr) # << >>)
       => Len(MediaLog) = Len(cur_S)
    /\ (last_fetch.kind = "media" /\ InRange(last_fetch.status))
       => write_path(last_fetch.dest) \in files

\* C3: in a session that only handles manifests without
\* minimumUpdatePeriod the manifest is handled exactly once, and the
\* session has handled exactly one manifest when it terminates.
C3_VodHandledOnce ==
    (\A k \in 1..Len(handled) : ~handled[k].live)
    => /\ Len(handled) <= 1
       /\ pc = "done" => Len(handled) = 1

\* C4: an entry with an explicit t starts at t, an entry without t starts
\* where the previous entry ended (the first at 0), and the timeline
\* [{d:4,r:2},{d:5,t:20}] expands to (1,0),(2,4),(3,8),(4,20),(5,25).
C4_ExplicitStartTime ==
    TemplatedDone =>
      /\ \A j \in 1..Len(compact) :
            LET f == FirstOf(compact, j)
            IN  IF "t" \in DOMAIN compact[j]
                THEN Descriptors[f][2] = compact[j]["t"]
                ELSE Descriptors[f][2] =
                        IF j = 1 THEN 0
                        ELSE Descriptors[f - 1][2] + attrib_get(compact[j - 1], "d", 0)
      /\ compact = ExampleS
         => Descriptors = << << 1, 0 >>, << 2, 4 >>, << 3, 8 >>,
                             << 4, 20 >>, << 5, 25 >> >>

\* the addresses of the first Period of the working tree
AllPairs == {<< 0, p[1], p[2] >> : p \in Range(pairs_from(mpd.Period[1], 1, 1))}

\* a download request was issued in this step
Fetched == Len(drive_log') = Len(drive_log) + 1

\* C5: a download whose status is outside [200,300) writes nothing, ends
\* nothing and is not repeated: the session goes on exactly where a
\* successful download would, so a finished templated drive has requested
\* every descriptor and a written cycle has driven every representation.
C5_FailedFetchSkipped ==
    /\ [][(Fetched /\ ~InRange(last_fetch'.status))
            => /\ files' = files
               /\ crash' = ""
               /\ pc' \in {"expand", "segment", "ensure", "write"}
               /\ last_fetch'.kind = "media" => seg_pos' = seg_pos + 1]_vars
    /\ [](\A i, j \in 1..Len(drive_log) :
            (drive_log[i].kind = drive_log[j].kind /\ drive_log[i].i = drive_log[j].i)
            => i = j)
    /\ [](TemplatedDone => Len(MediaLog) = Len(cur_S))
    /\ [](pc = "decide" => driven = AllPairs)

\* C5 witness: a cycle in which every download so far in the session
\* failed (nothing was written), yet both representations were driven,
\* the last drive requested an initialization and all its media segments,
\* and the cycle's output manifest has been written.
C5_Witness ==
    /\ pc = "decide"
    /\ files = {}
    /\ last_fetch.kind = "media" /\ ~InRange(last_fetch.status)
    /\ Len(drive_log) >= 3 /\ drive_log[1].kind = "init"
    /\ Cardinality(driven) = 2
    /\ out_mpd # << >>

\* C6: when a cycle reaches its output write, every AdaptationSet x
\* Representation pair of the first Period has been driven against that
\* cycle's manifest, in the first cycle and in every later one.
C6_DrivenEveryCycle ==
    pc = "write" => driven = AllPairs

\* C6 witness: the second handling of a session reaches its write having
\* driven addresses that an earlier cycle had already seen.
C6_Witness ==
    /\ pc = "write" /\ Len(handled) = 2
    /\ driven # {}
    /\ \E k \in 1..Len(downloaders) :
          k # cur /\ Triple(downloaders[k].key) = Triple(cur_addr)

\* C7: the downloaders map holds exactly one session per distinct address
\* seen so far.
C7_OneSessionPerAddress ==
    /\ Len(downloaders) = Cardinality(seen)
    /\ \A i, j \in 1..Len(downloaders) :
          Triple(downloaders[i].key) = Triple(downloaders[j].key) => i = j

\* C8: within one drive the media requests carry the sequence numbers
\* 1, 2, ..., in that order, a finished drive has requested every
\* descriptor exactly once, and an initialization request comes first.
C8_AscendingSequenceOrder ==
    /\ \A k \in 1..Len(MediaLog) : MediaLog[k].i = k
    /\ \A k \in 1..Len(drive_log) : drive_log[k].kind = "init" => k = 1
    /\ TemplatedDone =>
          /\ Len(MediaLog) = Len(cur_S)
          /\ \A k \in 1..Len(cur_S) : cur_S[k]["i"] = k

\* C8 witness: a finished drive that requested an initialization segment
\* and at least three media segments.
C8_Witness ==
    /\ TemplatedDone
    /\ Len(drive_log) >= 4
    /\ drive_log[1].kind = "init"
    /\ Len(MediaLog) >= 3

\* a manifest fetch was issued in this step
FetchedMpd == Len(status_log') = Len(status_log) + 1

C10_LiveRefreshVodStop ==
    /\ [][(pc = "decide" /\ mpd.minimumUpdatePeriod # "")
            => /\ pc' = "refresh"
               /\ after' = live_refresh_delay]_vars
    /\ [][(FetchedMpd /\ handled # << >> /\ pc = "refresh"
             /\ InRange(status_log[Len(status_log)]))
            => slept' = live_refresh_delay]_vars
    /\ [](vod_returned => pc \in {"return", "done"})

\* C11: the manifest written in a cycle is the manifest as it was parsed
\* from the response handled in that cycle; nothing the drives changed in
\* the working tree shows in manifest.mpd or in the numbered snapshot.
C11_OutputIsParsedManifest ==
    pc = "decide" =>
      /\ out_mpd = tostring(fromstring(r.text)[1])
      /\ save_mpds =>
            snapshots[Len(snapshots)].content = tostring(fromstring(r.text)[1])

\* C11 witness: the output manifest has been written in a cycle whose
\* drives rewrote a timeline of the working tree.
C11_Witness ==
    /\ pc = "decide"
    /\ TemplatedDone
    /\ mpd # original_mpd
    /\ out_mpd = tostring(original_mpd)

\* the (sequence_number, start_time) pairs carried by a list of S elements
PairsOf(ss) ==
    [k \in 1..Len(ss) |-> << attrib_get(ss[k], "i", 0), attrib_get(ss[k], "t", -1) >>]

\* the drive took the adaptation set's template after an earlier
\* representation of the same adaptation set
SecondOnShared ==
    /\ TemplatedDone
    /\ segment_template_owner(mpd, cur_addr) = "as"
    /\ cur_addr.representation_idx > 0

\* C12: a representation driven after another one of the same
\* AdaptationSet, both resolving to the adaptation set's SegmentTemplate,
\* ends with the same (sequence_number, start_time) descriptors as the one
\* driven before it left in the timeline.
C12_SharedTemplateSameDescriptors ==
    SecondOnShared => PairsOf(cur_S) = PairsOf(compact)

\* C12 witness: the second representation of a shared template finished a
\* timeline of at least three segments whose compact form had a repeat.
C12_Witness ==
    /\ SecondOnShared
    /\ Len(cur_S) >= 3
    /\ PairsOf(cur_S) = PairsOf(compact)
    /\ \E e \in Range(segment_timeline(original_mpd, cur_addr)[1].S) : "r" \in DOMAIN e

RECURSIVE SumRepeat(_)
\* sum of (repeat + 1) over the entries of a compact timeline
SumRepeat(c) ==
    IF c = << >> THEN 0
    ELSE attrib_get(Head(c), "r", 0) + 1 + SumRepeat(Tail(c))

\* C13: the expansion of a timeline holds sum of (repeat + 1) elements and
\* their sequence numbers are 1, 2, ..., n in order.
C13_ExpansionCount ==
    ((pc = "segment" /\ cur > 0) \/ TemplatedDone) =>
      /\ Len(cur_S) = SumRepeat(compact)
      /\ \A k \in 1..Len(cur_S) : attrib_get(cur_S[k], "i", 0) = k

\* C13 witness: a two-entry timeline with repeats was expanded into six
\* elements.
C13_Witness ==
    /\ pc = "segment"
    /\ Len(compact) = 2
    /\ \A k \in 1..2 : attrib_get(compact[k], "r", 0) = 2
    /\ Len(cur_S) = 6

\* text starts with http:// or https://
is_absolute(text) ==
    /\ Len(text) >= 3
    /\ SubSeq(text, 1, 3) \in {<< "http:", "/", "/" >>, << "https:", "/", "/" >>}

\* the base URL by the stated priority: an absolute BaseURL node, else the
\* Location's directory, else the manifest URL's directory, a relative
\* BaseURL node appended
BaseByPriority(m) ==
    LET b1 == IF m.Location # << >> THEN baseUrl(m.Location[1])
              ELSE baseUrl(mpd_url)
    IN  IF m.BaseURL = << >> THEN b1
        ELSE IF is_absolute(m.BaseURL[1].text) THEN baseUrl(m.BaseURL[1].text)
        ELSE b1 \o m.BaseURL[1].text

\* a representation session created in this handling is being driven
Driving == pc \in {"single", "init", "expand", "segment"} /\ cur > 0

\* C14: a manifest shape the downloader does not understand (a template
\* marker without a descriptor, a SegmentTemplate without SegmentTimeline)
\* never ends the session with an exception.
C14_ShapeErrorsNotFatal ==
    ~(pc = "crashed" /\ crash \in {"KeyError", "AttributeError"})

\* C15: the base URL a representation session is created with is the one
\* the priority order gives for the manifest being handled.
C15_BaseUrlByPriority ==
    Driving => downloaders[cur].mpd_base_url = BaseByPriority(mpd)

RECURSIVE zfill(_, _)
\* digits left-padded with "0" to the width
zfill(digits, width) ==
    IF Len(digits) >= width THEN digits
    ELSE zfill(<< "0" >> \o digits, width)

\* the rendition in which the number field is padded to five digits
PaddedRendition ==
    LET args == format_args(render_in.representation, render_in.segment)
    IN  format(replace_markers(render_in.template),
               [f \in DOMAIN args |->
                   IF f = "{number}" THEN zfill(args[f], 5) ELSE args[f]])

\* C16: a sequence-number marker of width 5 is replaced by the descriptor's
\* sequence number left-padded with zeros to five digits.
C16_NumberZeroPadded ==
    (pc = "rendered" /\ render_in.segment # << >>
       /\ "$Number%05d$" \in Range(render_in.template))
      => render_out.val = PaddedRendition

\* the representations of the manifest being handled, in document order
PairsInOrder == pairs_from(mpd.Period[1], 1, 1)

\* the drives finished so far are a prefix of the document order and the
\* ones still to do are the rest of it; the write comes after all of them
DocumentOrder ==
    pc \in {"ensure", "single", "init", "expand", "segment", "write", "decide"} =>
      \E k \in 0..Len(PairsInOrder) :
        /\ todo = SubSeq(PairsInOrder, k + 1, Len(PairsInOrder))
        /\ driven = {<< 0, PairsInOrder[j][1], PairsInOrder[j][2] >> : j \in 1..k}
        /\ pc \in {"write", "decide"} => k = Len(PairsInOrder)

\* the response being handled is the one of the latest manifest fetch:
\* every earlier refresh_mpd activation is suspended below it
LatestFetchHandled ==
    pc \in {"handle", "ensure", "single", "init", "expand", "segment",
            "write", "decide"}
      => Len(stack) + 1 = i_refresh

\* C17: within a cycle the representations are driven in document order
\* and the manifest is written after them; the events of a cycle all come
\* after the manifest fetches of every earlier cycle and before the fetch
\* of the next one.
C17_CyclesInOrder == DocumentOrder /\ LatestFetchHandled

\* C18: every response that was parsed and handled had a status in
\* [200,300).
C18_OnlySuccessfulHandled ==
    \A k \in 1..Len(handled) : InRange(handled[k].status_code)

\* C19: a finished drive leaves the SegmentTimeline of its representation
\* in the tree it was given as it was before the drive: the same S entries
\* with the same attributes.
C19_TimelineUnchanged ==
    TemplatedDone =>
      segment_timeline(mpd, cur_addr) = segment_timeline(original_mpd, cur_addr)

\* C20: with save_mpds set, the counters in the names of the snapshots
\* written so far are strictly increasing: no two handlings write the same
\* numbered file.
C20_SnapshotCountersIncrease ==
    save_mpds =>
      \A j, k \in 1..Len(snapshots) : j < k => snapshots[j].n < snapshots[k].n
====
